---- MODULE Spec2Model ----
(***************************************************************************)
(* Seat booking of the railway application: the stored procedure book_seat *)
(* (one database transaction under a row lock on the train), the           *)
(* cancellation handler DELETE /bookings/:id (three separate database      *)
(* requests issued by the Express handler) and the admin train update      *)
(* PUT /trains/:id.                                                        *)
(*                                                                         *)
(* bookings and trains hold the COMMITTED rows.  A running book_seat keeps *)
(* its uncommitted insert and decrement in its own record; they become     *)
(* visible at commit and are discarded when the EXCEPTION block rolls the  *)
(* function body back.                                                     *)
(***************************************************************************)
EXTENDS Integers, FiniteSets, Sequences, TLC

\* ---------------------------------------------------------------- bounds
MaxSeats == 2
MaxBookings == 2

\* ------------------------------------------------------------ the domain
Trains == {"T1", "T2"}
\* the trains the migration's INSERT INTO trains creates
SampleTrains == {"T1"}
NoTrain == "none"
Users == {"u1", "u2"}
Bookers == {"b1", "b2"}
\* the callers of the race of book_seat calls: one more than the seats
Callers == Bookers \cup {"b3"}
Cancellers == {"c1", "c2"}
NoProc == "none"
NULL == 0
BookingIds == 1..MaxBookings
SeatValues == 0..MaxSeats
NoChange == -1
\* if (!result.success) return res.status(400) ...; res.status(201)
ResponseStatus_ServerError(success) == IF success THEN 201 ELSE 500

ResponseStatus(success) == IF success THEN 201 ELSE 400
\* req.user.id of the session a booking process stands for
UserOf(p) == IF p = "b1" THEN "u1" ELSE "u2"
\* req.body.passenger_name, passenger_age, passenger_gender of its request
PassengerOf(p) == IF p = "b1" THEN <<"Asha", 30, "female">> ELSE <<"Ravi", 41, "male">>
\* SQLERRM of the errors a statement of book_seat raises
UniqueViolation == "duplicate key value violates unique constraint"
ForeignKeyViolation == "violates foreign key constraint"
StatementFault == "could not execute statement"
SqlErrors == {UniqueViolation, ForeignKeyViolation, StatementFault}

VARIABLES trains, bookings, nextId, lock, bk, cn, issued, adm

vars == <<trains, bookings, nextId, lock, bk, cn, issued, adm>>

\* ------------------------------------------------------------- helpers
Max(S) == CHOOSE x \in S : \A y \in S : y <= x

TrainBookings(t) == {b \in bookings : b.train_id = t}

SeatNumbers(t) == {b.seat_number : b \in TrainBookings(t)}

\* SELECT COALESCE(MAX(seat_number), 0) + 1 FROM bookings WHERE train_id = t
NextSeat_Minus(t) == IF SeatNumbers(t) = {} THEN 0 - 1 ELSE Max(SeatNumbers(t)) - 1

NextSeat(t) == IF SeatNumbers(t) = {} THEN 0 + 1 ELSE Max(SeatNumbers(t)) + 1

\* SELECT ... FROM trains WHERE id = t FOR UPDATE: the row lock is free
RowLockFree_NoLock(t) == TRUE

RowLockFree_TableLock(t) == \A t2 \in DOMAIN lock : lock[t2] = NoProc

RowLockFree(t) == lock[t] = NoProc

\* IF v_train_record.available_seats <= 0 THEN RETURN ...: the negated test
SeatsAvailable_OrZero(n) == ~(n < 0)

SeatsAvailable(n) == ~(n <= 0)

\* UNIQUE(train_id, seat_number)
SeatTaken(t, s) == \E b \in bookings : b.train_id = t /\ b.seat_number = s

IdleBooker == [pc |-> "idle", train |-> NoTrain, user |-> "u1",
               avail |-> NULL, seat |-> NULL, bid |-> NULL,
               ins |-> FALSE,
               success |-> FALSE, message |-> "", status |-> NULL]

\* the text fields POST /trains requires, beside total_seats
RequiredText == {"train_number", "train_name", "source", "destination"}
NoBody == [given |-> {}, total_seats |-> NULL]
\* the last request of the admin train routes and its answer
IdleAdmin == [op |-> "none", train |-> NoTrain, body |-> NoBody, status |-> NULL]

IdleCanceller == [pc |-> "idle", id |-> NULL, user |-> "u1", train |-> NoTrain,
                  removed |-> 0, status |-> 0]

InFlight == {p \in Callers : bk[p].pc \notin {"idle", "done"}}

\* ------------------------------------------------------------------ Init
Init ==
    /\ trains \in [SampleTrains -> {[total_seats |-> n, available_seats |-> n] : n \in 1..MaxSeats}]
    /\ bookings = {}
    /\ nextId = 1
    /\ lock = [t \in Trains |-> NoProc]
    /\ bk = [p \in Callers |-> IdleBooker]
    /\ cn = [c \in Cancellers |-> IdleCanceller]
    /\ issued = [t \in Trains |-> {}]
    /\ adm = IdleAdmin

\* ------------------------------------------------------------- book_seat
\* SELECT * INTO v_train_record FROM trains WHERE id = p_train_id FOR UPDATE
BookLock(p, t) ==
    /\ \/ bk[p].pc \in {"idle", "done"}
       \/ bk[p].pc = "waiting" /\ bk[p].train = t
    /\ IF t \in DOMAIN trains
         THEN /\ RowLockFree(t)
              /\ lock' = [lock EXCEPT ![t] = p]
              /\ bk' = [bk EXCEPT ![p] = [IdleBooker EXCEPT !.pc = "locked", !.train = t,
                                            !.user = UserOf(p),
                                            !.avail = trains[t].available_seats]]
         ELSE /\ lock' = lock
              /\ bk' = [bk EXCEPT ![p] = [IdleBooker EXCEPT !.pc = "locked", !.train = t,
                                            !.user = UserOf(p)]]
    /\ UNCHANGED <<trains, bookings, nextId, cn, issued, adm>>

\* the function's transaction ends: its row lock is released
Release_Kept(p) == lock

Release(p) == [t \in Trains |-> IF lock[t] = p THEN NoProc ELSE lock[t]]

\* IF v_train_record.id IS NULL THEN RETURN 'Train not found'
BookTrainNotFound(p) ==
    /\ bk[p].pc = "locked"
    /\ bk[p].train \notin DOMAIN trains
    /\ bk' = [bk EXCEPT ![p] = [IdleBooker EXCEPT !.pc = "done", !.train = bk[p].train,
                                  !.success = FALSE, !.message = "Train not found",
                                  !.status = ResponseStatus(FALSE)]]
    /\ lock' = Release(p)
    /\ UNCHANGED <<trains, bookings, nextId, cn, issued, adm>>

\* book_seat as the migration defines it has no 'Train not found' test: for a
\* missing train v_train_record is all NULL, NULL <= 0 is not true, and the
\* body goes on to the seat computation
BookNullTrain(p) ==
    /\ bk[p].pc = "locked"
    /\ bk[p].train \notin DOMAIN trains
    /\ bk' = [bk EXCEPT ![p].pc = "insert", ![p].seat = NextSeat(bk[p].train)]
    /\ UNCHANGED <<trains, bookings, nextId, lock, cn, issued, adm>>

\* IF v_train_record.available_seats <= 0 THEN RETURN 'No seats available'
BookNoSeats(p) ==
    /\ bk[p].pc = "locked"
    /\ bk[p].train \in DOMAIN trains
    /\ ~SeatsAvailable(bk[p].avail)
    /\ bk' = [bk EXCEPT ![p] = [IdleBooker EXCEPT !.pc = "done", !.train = bk[p].train,
                                  !.success = FALSE, !.message = "No seats available",
                                  !.status = ResponseStatus(FALSE)]]
    /\ lock' = Release(p)
    /\ UNCHANGED <<trains, bookings, nextId, cn, issued, adm>>

\* SELECT COALESCE(MAX(seat_number), 0) + 1 INTO v_seat_number
BookCompute(p) ==
    /\ bk[p].pc = "locked"
    /\ bk[p].train \in DOMAIN trains
    /\ SeatsAvailable(bk[p].avail)
    /\ bk' = [bk EXCEPT ![p].pc = "insert", ![p].seat = NextSeat(bk[p].train)]
    /\ UNCHANGED <<trains, bookings, nextId, lock, cn, issued, adm>>

\* the row of INSERT INTO bookings (...) VALUES (p_user_id, p_train_id,
\* v_seat_number, p_passenger_name, p_passenger_age, p_passenger_gender, 'confirmed')
NewRow(p) ==
    [id |-> bk[p].bid, user_id |-> bk[p].user,
     train_id |-> bk[p].train, seat_number |-> bk[p].seat,
     passenger |-> PassengerOf(p), booking_status |-> "confirmed"]

\* The handler of EXCEPTION WHEN OTHERS: the block's writes are rolled back
Rollback_KeepInsert(p) == IF bk[p].ins THEN bookings \cup {NewRow(p)} ELSE bookings

Rollback(p) == bookings

\* 'Booking failed: ' || SQLERRM
FailureMessage_NoText(err) == "Booking failed"

FailureMessage(err) == "Booking failed: " \o err

\* RETURN json_build_object('success', false, 'message', 'Booking failed: ' || SQLERRM, ...)
Raise(p, err) ==
    /\ bk' = [bk EXCEPT ![p] = [IdleBooker EXCEPT !.pc = "done", !.train = bk[p].train,
                                  !.success = FALSE, !.message = FailureMessage(err),
                                  !.status = ResponseStatus(FALSE)]]
    /\ bookings' = Rollback(p)
    /\ lock' = Release(p)
    /\ UNCHANGED <<trains, cn, issued, adm>>

\* INSERT INTO bookings (...) VALUES (...) RETURNING id INTO v_booking_id
BookInsert(p) ==
    /\ bk[p].pc = "insert"
    /\ IF bk[p].train \notin DOMAIN trains
         THEN Raise(p, ForeignKeyViolation) /\ UNCHANGED nextId
         ELSE IF SeatTaken(bk[p].train, bk[p].seat)
         THEN Raise(p, UniqueViolation) /\ UNCHANGED nextId
         ELSE /\ bk' = [bk EXCEPT ![p].pc = "update", ![p].ins = TRUE, ![p].bid = nextId]
              /\ nextId' = nextId + 1
              /\ UNCHANGED <<trains, bookings, lock, cn, issued, adm>>

\* UPDATE trains SET available_seats = available_seats - 1 WHERE id = p_train_id
Decremented_Kept(n) == n

Decremented(n) == n - 1

\* ... WHERE id = p_train_id: the one row of the call's train
DecrementSeats_AllRows(t) ==
    [x \in DOMAIN trains |-> [trains[x] EXCEPT !.available_seats = Decremented(@)]]

DecrementSeats(t) == [trains EXCEPT ![t].available_seats = Decremented(@)]

\* the UPDATE, then RETURN json_build_object('success', true, ...): the call
\* commits, its insert and its decrement become visible, the lock is released
BookUpdate(p) ==
    /\ bk[p].pc = "update"
    /\ bookings' = bookings \cup {NewRow(p)}
    /\ trains' = DecrementSeats(bk[p].train)
    /\ issued' = [issued EXCEPT ![bk[p].train] = @ \cup {bk[p].seat}]
    /\ bk' = [bk EXCEPT ![p] = [IdleBooker EXCEPT !.pc = "done", !.train = bk[p].train,
                                  !.success = TRUE, !.message = "Booking successful",
                                  !.status = ResponseStatus(TRUE),
                                  !.bid = bk[p].bid, !.seat = bk[p].seat]]
    /\ lock' = Release(p)
    /\ UNCHANGED <<nextId, cn, adm>>

\* supabase.rpc('book_seat', ...) has been sent: the call stands at its first
\* statement, SELECT ... FOR UPDATE, until the train's row lock is free
BookRequest(p, t) ==
    /\ bk[p].pc = "idle"
    /\ bk' = [bk EXCEPT ![p] = [IdleBooker EXCEPT !.pc = "waiting", !.train = t]]
    /\ UNCHANGED <<trains, bookings, nextId, lock, cn, issued, adm>>

BookAcquire(p) ==
    /\ bk[p].pc = "waiting"
    /\ BookLock(p, bk[p].train)

\* POST /bookings: supabase.rpc('book_seat', ...), while booking ids remain
BookCall(p, t) ==
    /\ nextId + Cardinality(InFlight) <= MaxBookings
    /\ BookLock(p, t)

\* if (!train_id || !passenger_name || !passenger_age || !passenger_gender)
\*   return res.status(400): book_seat is not called
MissingDetails == "All passenger details are required"

PostMissingField(p) ==
    /\ bk[p].pc \in {"idle", "done"}
    /\ bk' = [bk EXCEPT ![p] = [IdleBooker EXCEPT !.pc = "done", !.success = FALSE,
                                  !.message = MissingDetails, !.status = 400]]
    /\ UNCHANGED <<trains, bookings, nextId, lock, cn, issued, adm>>

\* if (error) return res.status(500).json({ error: error.message }): the RPC
\* fails before or while book_seat runs; its transaction does not commit
RpcErrorText == "rpc error"

RpcError(p) ==
    /\ bk[p].pc \in {"idle", "done", "locked", "insert", "update"}
    /\ bk' = [bk EXCEPT ![p] = [IdleBooker EXCEPT !.pc = "done", !.train = bk[p].train,
                                  !.success = FALSE, !.message = RpcErrorText,
                                  !.status = 500]]
    /\ bookings' = Rollback(p)
    /\ lock' = Release(p)
    /\ UNCHANGED <<trains, nextId, cn, issued, adm>>

\* The seat computation, the insert or the update raises: WHEN OTHERS
BookFault(p) ==
    /\ \/ bk[p].pc \in {"insert", "update"}
       \/ /\ bk[p].pc = "locked"
          /\ bk[p].train \in DOMAIN trains
          /\ SeatsAvailable(bk[p].avail)
    /\ Raise(p, StatementFault)
    /\ UNCHANGED nextId

\* ------------------------------------------------- DELETE /bookings/:id
\* select('train_id').eq('id', id).eq('user_id', user_id).single()
OwnedRows_AnyUser(id, u) == {b \in bookings : b.id = id}

OwnedRows(id, u) == {b \in bookings : b.id = id /\ b.user_id = u}

\* the fetch finds the caller's booking
CancelFetch(c, id, u) ==
    /\ cn[c].pc \in {"idle", "done"}
    /\ OwnedRows(id, u) # {}
    /\ cn' = [cn EXCEPT ![c] = [IdleCanceller EXCEPT !.pc = "delete", !.id = id, !.user = u,
                                   !.train = (CHOOSE b \in OwnedRows(id, u) : TRUE).train_id]]
    /\ UNCHANGED <<trains, bookings, nextId, lock, bk, issued, adm>>

\* if (fetchError || !booking) return 404: no row of this id for this user
CancelNotFound(c) ==
    /\ cn[c].pc \in {"idle", "done"}
    /\ {r \in BookingIds \X Users : OwnedRows(r[1], r[2]) = {}} # {}
    /\ cn' = [cn EXCEPT ![c] = [IdleCanceller EXCEPT !.pc = "done", !.status = 404]]
    /\ UNCHANGED <<trains, bookings, nextId, lock, bk, issued, adm>>

\* if (fetchError || !booking) return 404: the select itself fails
CancelFetchError(c) ==
    /\ cn[c].pc \in {"idle", "done"}
    /\ cn' = [cn EXCEPT ![c] = [IdleCanceller EXCEPT !.pc = "done", !.status = 404]]
    /\ UNCHANGED <<trains, bookings, nextId, lock, bk, issued, adm>>

\* from('bookings').delete(): the matching rows leave the table
Deleted_Soft(rows) ==
    (bookings \ rows) \cup {[b EXCEPT !.booking_status = "cancelled"] : b \in rows}

Deleted(rows) == bookings \ rows

\* from('bookings').delete().eq('id', id).eq('user_id', user_id)
CancelDelete(c) ==
    /\ cn[c].pc = "delete"
    /\ bookings' = Deleted(OwnedRows(cn[c].id, cn[c].user))
    /\ cn' = [cn EXCEPT ![c].pc = "update",
                        ![c].removed = Cardinality(OwnedRows(cn[c].id, cn[c].user))]
    /\ UNCHANGED <<trains, nextId, lock, bk, issued, adm>>

\* if (deleteError) return 500
CancelDeleteError(c) ==
    /\ cn[c].pc = "delete"
    /\ cn' = [cn EXCEPT ![c] = [IdleCanceller EXCEPT !.pc = "done", !.status = 500]]
    /\ UNCHANGED <<trains, bookings, nextId, lock, bk, issued, adm>>

\* update({ available_seats: available_seats + 1 }).eq('id', booking.train_id)
Incremented_Twice(n) == n + 2

Incremented(n) == n + 1

CancelUpdate(c) ==
    /\ cn[c].pc = "update"
    /\ RowLockFree(cn[c].train)
    /\ trains' = [trains EXCEPT ![cn[c].train].available_seats = Incremented(@)]
    /\ cn' = [cn EXCEPT ![c] = [IdleCanceller EXCEPT !.pc = "done", !.status = 200]]
    /\ UNCHANGED <<bookings, nextId, lock, bk, issued, adm>>

\* if (updateError) console.error(...); the response is still the 200
CancelUpdateError(c) ==
    /\ cn[c].pc = "update"
    /\ cn' = [cn EXCEPT ![c] = [IdleCanceller EXCEPT !.pc = "done", !.status = 200]]
    /\ UNCHANGED <<trains, bookings, nextId, lock, bk, issued, adm>>

\* building or sending the update throws: catch (error) answers 500
CancelThrow(c) ==
    /\ cn[c].pc = "update"
    /\ cn' = [cn EXCEPT ![c] = [IdleCanceller EXCEPT !.pc = "done", !.status = 500]]
    /\ UNCHANGED <<trains, bookings, nextId, lock, bk, issued, adm>>

\* ------------------------------------------------------- PUT /trains/:id
\* from('trains').update(req.body).eq('id', id)
\* a request body that carries total_seats or available_seats
Updates ==
    {[total_seats |-> n, available_seats |-> NoChange] : n \in SeatValues}
        \cup {[total_seats |-> NoChange, available_seats |-> n] : n \in SeatValues}

AdminUpdate(t, upd) ==
    /\ t \in DOMAIN trains
    /\ RowLockFree(t)
    /\ trains' = [trains EXCEPT ![t] =
          [total_seats |-> IF upd.total_seats = NoChange THEN @.total_seats
                           ELSE upd.total_seats,
           available_seats |-> IF upd.available_seats = NoChange THEN @.available_seats
                               ELSE upd.available_seats]]
    /\ UNCHANGED <<bookings, nextId, lock, bk, cn, issued, adm>>

\* ---------------------------------------------------------- POST /trains
\* request bodies: all required text fields or all but one, and total_seats
\* (0 stands for a body without total_seats as well: both are falsy)
CreateBodies ==
    {[given |-> g, total_seats |-> n] :
        g \in {RequiredText} \cup {RequiredText \ {f} : f \in RequiredText},
        n \in SeatValues}

\* !(!train_number || !train_name || !source || !destination || !total_seats)
BodyComplete_NoSeatsTest(body) == body.given = RequiredText

BodyComplete(body) == body.given = RequiredText /\ body.total_seats # 0

\* insert([{ ..., total_seats, available_seats: total_seats, ... }])
Created(t, body) ==
    [x \in DOMAIN trains \cup {t} |->
        IF x = t THEN [total_seats |-> body.total_seats,
                       available_seats |-> body.total_seats]
        ELSE trains[x]]

\* the handler: 400 for an incomplete body, else the insert and 201
AdminCreate(t, body) ==
    /\ IF ~BodyComplete(body)
         THEN /\ adm' = [op |-> "create", train |-> NoTrain, body |-> body, status |-> 400]
              /\ trains' = trains
         ELSE /\ t \notin DOMAIN trains
              /\ adm' = [op |-> "create", train |-> t, body |-> body, status |-> 201]
              /\ trains' = Created(t, body)
    /\ UNCHANGED <<bookings, nextId, lock, bk, cn, issued>>

\* if (error) return res.status(400): the insert fails (train_number taken)
AdminCreateError(body) ==
    /\ BodyComplete(body)
    /\ adm' = [op |-> "create", train |-> NoTrain, body |-> body, status |-> 400]
    /\ UNCHANGED <<trains, bookings, nextId, lock, bk, cn, issued>>

\* ---------------------------------------------------- DELETE /trains/:id
\* the trains router registers get, post and put only: the request matches
\* no route, Express answers 404 and nothing is deleted
AdminDelete(t) ==
    /\ adm' = [op |-> "delete", train |-> t, body |-> NoBody, status |-> 404]
    /\ UNCHANGED <<trains, bookings, nextId, lock, bk, cn, issued>>

\* ------------------------------------------------------- specifications
BookStep ==
    \/ \E p \in Bookers, t \in Trains : BookCall(p, t)
    \/ \E p \in Bookers : BookTrainNotFound(p)
    \/ \E p \in Bookers : BookNoSeats(p)
    \/ \E p \in Bookers : BookCompute(p)
    \/ \E p \in Bookers : BookInsert(p)
    \/ \E p \in Bookers : BookUpdate(p)

CancelStep ==
    \/ \E c \in Cancellers, id \in BookingIds, u \in Users : CancelFetch(c, id, u)
    \/ \E c \in Cancellers : CancelNotFound(c)
    \/ \E c \in Cancellers : CancelFetchError(c)
    \/ \E c \in Cancellers : CancelDelete(c)
    \/ \E c \in Cancellers : CancelDeleteError(c)
    \/ \E c \in Cancellers : CancelUpdate(c)
    \/ \E c \in Cancellers : CancelUpdateError(c)
    \/ \E c \in Cancellers : CancelThrow(c)

Next ==
    \/ BookStep
    \/ \E p \in Bookers : BookFault(p)
    \/ CancelStep
    \/ \E t \in Trains, upd \in Updates : AdminUpdate(t, upd)

Spec == Init /\ [][Next]_vars

\* book_seat and cancellation requests only: no admin train update
NextAlloc ==
    \/ BookStep
    \/ \E p \in Bookers : BookFault(p)
    \/ CancelStep

SpecAlloc == Init /\ [][NextAlloc]_vars

\* POST /bookings with its own answers (400 before the call, 500 for a failed
\* RPC)
NextApi ==
    \/ BookStep
    \/ \E p \in Bookers : BookFault(p)
    \/ \E p \in Bookers : PostMissingField(p)
    \/ \E p \in Bookers : RpcError(p)

SpecApi == Init /\ [][NextApi]_vars

\* the admin's create and delete requests beside book_seat calls
NextAdmin ==
    \/ BookStep
    \/ \E t \in Trains, body \in CreateBodies : AdminCreate(t, body)
    \/ \E body \in CreateBodies : AdminCreateError(body)
    \/ \E t \in Trains : AdminDelete(t)

SpecAdmin == Init /\ [][NextAdmin]_vars

\* book_seat calls for two existing trains
InitTwoTrains ==
    /\ trains \in [Trains -> {[total_seats |-> n, available_seats |-> n] : n \in 1..MaxSeats}]
    /\ bookings = {}
    /\ nextId = 1
    /\ lock = [t \in Trains |-> NoProc]
    /\ bk = [p \in Callers |-> IdleBooker]
    /\ cn = [c \in Cancellers |-> IdleCanceller]
    /\ issued = [t \in Trains |-> {}]
    /\ adm = IdleAdmin

NextTwoTrains ==
    \/ \E p \in Bookers, t \in Trains : BookCall(p, t)
    \/ \E p \in Bookers : BookNoSeats(p)
    \/ \E p \in Bookers : BookCompute(p)
    \/ \E p \in Bookers : BookInsert(p)
    \/ \E p \in Bookers : BookUpdate(p)
    \/ \E p \in Bookers : BookFault(p)

SpecTwoTrains == InitTwoTrains /\ [][NextTwoTrains]_vars

\* book_seat calls and the cancellation requests of one session, two trains
FrameCancellers == {"c1"}

NextFrame ==
    \/ \E p \in Bookers, t \in Trains : BookCall(p, t)
    \/ \E p \in Bookers : BookNoSeats(p)
    \/ \E p \in Bookers : BookCompute(p)
    \/ \E p \in Bookers : BookInsert(p)
    \/ \E p \in Bookers : BookUpdate(p)
    \/ \E p \in Bookers : BookFault(p)
    \/ \E c \in FrameCancellers, id \in BookingIds, u \in Users : CancelFetch(c, id, u)
    \/ \E c \in FrameCancellers : CancelNotFound(c)
    \/ \E c \in FrameCancellers : CancelFetchError(c)
    \/ \E c \in FrameCancellers : CancelDelete(c)
    \/ \E c \in FrameCancellers : CancelDeleteError(c)
    \/ \E c \in FrameCancellers : CancelUpdate(c)
    \/ \E c \in FrameCancellers : CancelUpdateError(c)
    \/ \E c \in FrameCancellers : CancelThrow(c)

SpecFrame == InitTwoTrains /\ [][NextFrame]_vars

\* the first (and only) book_seat call of a session
BookFirst(p, t) == bk[p].pc = "idle" /\ BookLock(p, t)

\* book_seat as created by the migration, with the cancellation requests
NextMigration ==
    \/ \E p \in Bookers, t \in Trains : BookCall(p, t)
    \/ \E p \in Bookers : BookNullTrain(p)
    \/ \E p \in Bookers : BookNoSeats(p)
    \/ \E p \in Bookers : BookCompute(p)
    \/ \E p \in Bookers : BookInsert(p)
    \/ \E p \in Bookers : BookUpdate(p)
    \/ \E p \in Bookers : BookFault(p)
    \/ CancelStep

SpecMigration == Init /\ [][NextMigration]_vars

\* Train T1 with three bookings, seats 1, 2 and 3, made one after the other;
\* then cancellation requests and one further book_seat call per session.
ScenarioRow(i) ==
    [id |-> i, user_id |-> IF i = 2 THEN "u2" ELSE "u1",
     train_id |-> "T1", seat_number |-> i,
     passenger |-> PassengerOf(IF i = 2 THEN "b2" ELSE "b1"),
     booking_status |-> "confirmed"]

InitScenario ==
    /\ trains \in [SampleTrains -> {[total_seats |-> n, available_seats |-> n - 3] : n \in {3, 4}}]
    /\ bookings = {ScenarioRow(i) : i \in 1..3}
    /\ nextId = 4
    /\ lock = [t \in Trains |-> NoProc]
    /\ bk = [p \in Callers |-> IdleBooker]
    /\ cn = [c \in Cancellers |-> IdleCanceller]
    /\ issued = [t \in Trains |-> IF t = "T1" THEN {1, 2, 3} ELSE {}]
    /\ adm = IdleAdmin

NextScenario ==
    \/ \E p \in Bookers, t \in Trains : BookFirst(p, t)
    \/ \E p \in Bookers : BookTrainNotFound(p)
    \/ \E p \in Bookers : BookNoSeats(p)
    \/ \E p \in Bookers : BookCompute(p)
    \/ \E p \in Bookers : BookInsert(p)
    \/ \E p \in Bookers : BookUpdate(p)
    \/ CancelStep

SpecScenario == InitScenario /\ [][NextScenario]_vars

\* One book_seat call per caller, all callers racing, nothing else running.
\* The train starts with n seats, all available, n drawn from 0..MaxSeats.
InitRace ==
    /\ trains \in [SampleTrains -> {[total_seats |-> n, available_seats |-> n] : n \in SeatValues}]
    /\ bookings = {}
    /\ nextId = 1
    /\ lock = [t \in Trains |-> NoProc]
    /\ bk = [p \in Callers |-> IdleBooker]
    /\ cn = [c \in Cancellers |-> IdleCanceller]
    /\ issued = [t \in Trains |-> {}]
    /\ adm = IdleAdmin

NextRace ==
    \/ \E p \in Callers, t \in Trains : BookFirst(p, t)
    \/ \E p \in Callers : BookTrainNotFound(p)
    \/ \E p \in Callers : BookNoSeats(p)
    \/ \E p \in Callers : BookCompute(p)
    \/ \E p \in Callers : BookInsert(p)
    \/ \E p \in Callers : BookUpdate(p)

SpecRace == InitRace /\ [][NextRace]_vars

\* One book_seat call per caller; the database runs every call that can take
\* a step (a backend process per call): weak fairness per call.
BookProc(p) ==
    \/ BookAcquire(p)
    \/ BookTrainNotFound(p)
    \/ BookNoSeats(p)
    \/ BookCompute(p)
    \/ BookInsert(p)
    \/ BookUpdate(p)

NextLive ==
    \/ \E p \in Callers, t \in Trains : BookRequest(p, t)
    \/ \E p \in Callers : BookAcquire(p)
    \/ \E p \in Callers : BookTrainNotFound(p)
    \/ \E p \in Callers : BookNoSeats(p)
    \/ \E p \in Callers : BookCompute(p)
    \/ \E p \in Callers : BookInsert(p)
    \/ \E p \in Callers : BookUpdate(p)
    \/ \E p \in Callers : BookFault(p)

SpecLive == InitRace /\ [][NextLive]_vars /\ \A p \in Callers : WF_vars(BookProc(p))

\* ================================================================ claims

\* C1: in every reachable state no two booking rows of the same train carry
\* the same seat number.
C1_SeatsDistinct ==
    \A b1 \in bookings : \A b2 \in bookings :
        (b1.train_id = b2.train_id /\ b1.seat_number = b2.seat_number) => b1 = b2

C1_Witness ==
    \E b1 \in bookings : \E b2 \in bookings :
        b1 # b2 /\ b1.train_id = b2.train_id /\ b1.user_id # b2.user_id

\* C2: when every caller has made its one book_seat call and the calls for
\* train t outnumber its n available seats, exactly n of them succeeded, the
\* others failed with "No seats available" and available_seats is 0.
CallsFor(t) == {p \in Callers : bk[p].pc = "done" /\ bk[p].train = t}

Succeeded(t) == {p \in CallsFor(t) : bk[p].success}

Refused(t) == {p \in CallsFor(t) : ~bk[p].success /\ bk[p].message = "No seats available"}

C2_ExactlyNSucceed ==
    (\A p \in Callers : bk[p].pc = "done") =>
        \A t \in DOMAIN trains :
            Cardinality(CallsFor(t)) > trains[t].total_seats =>
                /\ Cardinality(Succeeded(t)) = trains[t].total_seats
                /\ Cardinality(Refused(t)) = Cardinality(CallsFor(t)) - trains[t].total_seats
                /\ trains[t].available_seats = 0
                /\ (trains[t].total_seats = 1 =>
                        \E b \in bookings : TrainBookings(t) = {b} /\ b.seat_number = 1)

C2_Witness ==
    /\ \A p \in Callers : bk[p].pc = "done" /\ bk[p].train = "T1"
    /\ trains["T1"].total_seats = 2
    /\ \E p \in Callers : bk[p].success /\ bk[p].seat = 1
    /\ \E p \in Callers : bk[p].success /\ bk[p].seat = 2
    /\ \E p \in Callers : ~bk[p].success /\ bk[p].message = "No seats available"

\* C3: the step that completes a cancellation which removed the caller's
\* booking row increases the train's available_seats by exactly 1, and the
\* row stays gone.
C3_CancelRestoresSeat ==
    [][\A c \in Cancellers :
          (cn[c].pc = "update" /\ cn[c].removed >= 1 /\ cn'[c].pc = "done") =>
              /\ trains'[cn[c].train].available_seats =
                     trains[cn[c].train].available_seats + 1
              /\ OwnedRows(cn[c].id, cn[c].user)' = {}]_vars

\* C4: there is no state in which a cancellation has removed the booking
\* row while the train's available_seats has not been incremented for it.
C4_DeleteAndIncrementAtomic ==
    \A c \in Cancellers : ~(cn[c].pc = "update" /\ cn[c].removed >= 1)

\* C5 as stated: every seat number book_seat issues for a train is strictly
\* greater than every seat number issued for that train before.
C5_NeverReissued ==
    [][\A b \in bookings' \ bookings :
          \A s \in issued[b.train_id] : b.seat_number > s]_vars

\* C5 amended: every seat number book_seat issues for a train is strictly
\* greater than the seat number of every booking row the train has at that
\* moment (numbers of cancelled bookings above that maximum are issued again).
C5_AboveCurrentRows ==
    [][\A b \in bookings' \ bookings :
          \A b2 \in bookings : b2.train_id = b.train_id => b.seat_number > b2.seat_number]_vars

C5_Witness ==
    \E b \in bookings : b.id = 2 /\ b.seat_number = 1 /\ issued[b.train_id] = {1}

\* C6: the number of booking rows of a train never exceeds its total_seats.
C6_BookingsWithinTotal ==
    \A t \in DOMAIN trains : Cardinality(TrainBookings(t)) <= trains[t].total_seats

\* C7: a train's available_seats is at most its total_seats.
C7_AvailableWithinTotal ==
    \A t \in DOMAIN trains : trains[t].available_seats <= trains[t].total_seats

\* C8: under book_seat calls and cancellations a train's available_seats is
\* never negative.
C8_AvailableNonNegative ==
    \A t \in DOMAIN trains : trains[t].available_seats >= 0

C8_Witness ==
    /\ trains["T1"].available_seats = 0
    /\ TrainBookings("T1") # {}
    /\ \E p \in Bookers : bk[p].pc = "done" /\ bk[p].message = "No seats available"

\* C9: the step in which a book_seat call fails after it computed its seat
\* number leaves the trains and the booking rows as they were: nothing the
\* call wrote before the failure is visible.
C9_FailedCallChangesNothing ==
    [][\A p \in Bookers :
          (bk[p].pc \in {"insert", "update"} /\ bk'[p].pc = "done" /\ ~bk'[p].success)
              => (bookings' = bookings /\ trains' = trains)]_vars

C9_Witness ==
    \E p \in Bookers :
        /\ bk[p].pc = "done" /\ bk[p].message = FailureMessage(StatementFault)
        /\ nextId > 1
        /\ bookings = {}
        /\ \A t \in DOMAIN trains : trains[t].available_seats = trains[t].total_seats

\* C10: the handler of a cancellation request that answers with a failure
\* (404 or 500) has removed no booking row, and the answering step changes
\* neither the trains nor the booking rows.
C10_FailedCancelChangesNothing ==
    [][\A c \in Cancellers :
          (cn[c].pc # "done" /\ cn'[c].pc = "done" /\ cn'[c].status \in {404, 500}) =>
              (cn[c].removed = 0 /\ bookings' = bookings /\ trains' = trains)]_vars

\* C11: a book_seat call for a train_id of no existing train ends with
\* success = false and the message "Train not found", and the step that ends
\* it adds no booking row and changes no train.
C11_MissingTrainNotFound ==
    [][\A p \in Bookers :
          (bk[p].pc \in {"locked", "insert", "update"} /\ bk[p].train \notin DOMAIN trains
              /\ bk'[p].pc = "done")
              => /\ ~bk'[p].success
                 /\ bk'[p].message = "Train not found"
                 /\ bookings' = bookings
                 /\ trains' = trains]_vars

\* C12: a book_seat call that holds the lock of an existing train whose
\* available_seats is <= 0 ends, in its next step, with success = false and
\* the message "No seats available"; that step adds no booking row and
\* leaves the trains unchanged.
C12_NoSeatsRefused ==
    [][\A p \in Bookers :
          (/\ bk[p].pc = "locked"
           /\ bk[p].train \in DOMAIN trains
           /\ trains[bk[p].train].available_seats <= 0
           /\ bk'[p] # bk[p])
              => /\ bk'[p].pc = "done"
                 /\ ~bk'[p].success
                 /\ bk'[p].message = "No seats available"
                 /\ bookings' = bookings
                 /\ trains' = trains]_vars

C12_Witness ==
    \E p \in Bookers :
        /\ bk[p].pc = "done" /\ ~bk[p].success /\ bk[p].message = "No seats available"
        /\ bk[p].train \in DOMAIN trains
        /\ lock[bk[p].train] = NoProc
        /\ trains[bk[p].train].available_seats = 0
        /\ Cardinality(TrainBookings(bk[p].train)) = trains[bk[p].train].total_seats

\* C13: every booking row book_seat adds carries seat number 1 when its train
\* had no booking row and otherwise the largest seat number of the train's
\* rows + 1; and with seats {1,2,3} booked, once the booking of seat 2 has
\* been cancelled and before any further booking, available_seats is one more
\* than it was (total_seats - 2), and the next row added carries seat 4.
C13_MaxPlusOneAfterCancel ==
    [][/\ \A b \in bookings' \ bookings :
             b.seat_number = IF SeatNumbers(b.train_id) = {} THEN 1
                             ELSE Max(SeatNumbers(b.train_id)) + 1
       /\ (/\ SeatNumbers("T1") = {1, 3}
           /\ nextId = 4
           /\ \A c \in Cancellers : cn[c].pc \in {"idle", "done"})
              => /\ trains["T1"].available_seats = trains["T1"].total_seats - 2
                 /\ \A b \in bookings' \ bookings : b.seat_number = 4]_vars

\* C14: the step in which a book_seat call returns success = true adds
\* exactly one booking row, for the call's train and user, with status
\* 'confirmed', the call's passenger details and the returned seat_number and
\* booking_id, removes no row, and decreases that train's available_seats by
\* exactly 1 (its total_seats and the other trains stay as they were).
C14_SuccessAddsOneRow ==
    [][\A p \in Bookers :
          (bk[p].pc # "done" /\ bk'[p].pc = "done" /\ bk'[p].success) =>
              /\ bookings \subseteq bookings'
              /\ \E b \in bookings' \ bookings :
                     /\ bookings' \ bookings = {b}
                     /\ b.train_id = bk[p].train
                     /\ b.user_id = UserOf(p)
                     /\ b.passenger = PassengerOf(p)
                     /\ b.booking_status = "confirmed"
                     /\ b.seat_number = bk'[p].seat
                     /\ b.id = bk'[p].bid
              /\ trains'[bk[p].train].available_seats =
                     trains[bk[p].train].available_seats - 1
              /\ trains'[bk[p].train].total_seats = trains[bk[p].train].total_seats
              /\ \A t \in DOMAIN trains \ {bk[p].train} : trains'[t] = trains[t]]_vars

C14_Witness ==
    \E p \in Bookers : \E b \in bookings :
        /\ bk[p].pc = "done" /\ bk[p].success
        /\ b.id = bk[p].bid /\ b.seat_number = bk[p].seat /\ b.passenger = PassengerOf(p)
        /\ bookings = {b}
        /\ trains[b.train_id].available_seats = trains[b.train_id].total_seats - 1

\* C15: for every existing train at most one book_seat call is between
\* taking the train's row lock and its return.
InProgress(t) == {p \in Callers : bk[p].train = t /\ bk[p].pc \in {"locked", "insert", "update"}}

C15_OneCallPerTrain ==
    \A t \in DOMAIN trains : Cardinality(InProgress(t)) <= 1

C15_Witness ==
    \E p \in Bookers : \E q \in Bookers \ {p} :
        /\ bk[p].pc = "update" /\ bk[p].train \in DOMAIN trains
        /\ bk[q].pc = "done" /\ bk[q].success /\ bk[q].train = bk[p].train
        /\ bk[p].seat = bk[q].seat + 1

\* C16: a book_seat call for an existing train a can take a's row lock
\* whenever no call for a itself is in progress, and a call in progress for a
\* can always take its next step, whatever calls are in progress for other
\* trains.
C16_OtherTrainNotBlocking ==
    \A p \in Bookers : \A a \in DOMAIN trains :
        /\ (bk[p].pc \in {"idle", "done"} /\ InProgress(a) = {}) => ENABLED BookLock(p, a)
        /\ p \in InProgress(a) =>
               ENABLED (BookNoSeats(p) \/ BookCompute(p) \/ BookInsert(p) \/ BookUpdate(p))

C16_Witness ==
    \E p \in Bookers : \E q \in Bookers :
        /\ bk[p].pc = "update" /\ bk[p].train = "T1"
        /\ bk[q].pc = "update" /\ bk[q].train = "T2"

\* C17: a cancellation request gets past its first step only when the
\* booking it names belongs to the requesting user; any other request is
\* answered 404 in a step that changes neither the booking rows nor the
\* trains; and a booking row is removed only by a request of its owner.
C17_ForeignCancelRejected ==
    [][/\ \A c \in Cancellers :
             (cn[c].pc \in {"idle", "done"} /\ cn'[c] # cn[c]) =>
                 \/ /\ cn'[c].pc = "delete"
                    /\ \E b \in bookings :
                           /\ b.id = cn'[c].id
                           /\ b.user_id = cn'[c].user
                           /\ b.train_id = cn'[c].train
                 \/ /\ cn'[c].pc = "done"
                    /\ cn'[c].status = 404
                    /\ bookings' = bookings
                    /\ trains' = trains
       /\ \A b \in bookings \ bookings' :
             \E c \in Cancellers :
                 cn[c].pc = "delete" /\ cn[c].id = b.id /\ cn[c].user = b.user_id]_vars

C17_Witness ==
    /\ \E b1 \in bookings : \E b2 \in bookings :
           b1.id = 1 /\ b2.id = 2 /\ b1.user_id # b2.user_id
    /\ \A c \in Cancellers : cn[c].pc = "done" /\ cn[c].status = 404
    /\ \A t \in DOMAIN trains :
           trains[t].available_seats = trains[t].total_seats - Cardinality(TrainBookings(t))

\* C18: a book_seat call that has taken its first step always ends in a
\* returned result (it goes on to its next statement or returns); when its
\* seat computation, insert or update raised, the result has success = false
\* and the message 'Booking failed: ' followed by the error's text.
C18_ErrorsReturned ==
    [][\A p \in Bookers :
          /\ (bk[p].pc \in {"locked", "insert", "update"} /\ bk'[p] # bk[p]) =>
                 bk'[p].pc \in {"insert", "update", "done"}
          /\ (bk[p].pc \in {"locked", "insert", "update"} /\ bk'[p].pc = "done"
                 /\ ~bk'[p].success) =>
                 bk'[p].message \in {"Train not found", "No seats available"}
                                      \cup {"Booking failed: " \o e : e \in SqlErrors}
          /\ (bk[p].pc \in {"insert", "update"} /\ bk'[p].pc = "done"
                 /\ ~bk'[p].success) =>
                 bk'[p].message \in {"Booking failed: " \o e : e \in SqlErrors}]_vars

C18_Witness ==
    \E p \in Bookers :
        /\ bk[p].pc = "done" /\ ~bk[p].success
        /\ bk[p].message = "Booking failed: could not execute statement"
        /\ \E b \in bookings : b.user_id # UserOf(p)
        /\ lock[bk[p].train] = NoProc

\* C19: no step changes a train's total_seats, and a train's available_seats
\* changes only by the decrement of a succeeding book_seat call or by the
\* increment of a cancellation.
C19_SeatsOnlyByAllocator ==
    [][\A t \in DOMAIN trains :
          /\ trains'[t].total_seats = trains[t].total_seats
          /\ trains'[t].available_seats # trains[t].available_seats =>
                 \/ /\ trains'[t].available_seats = trains[t].available_seats - 1
                    /\ \E p \in Bookers :
                           bk[p].pc = "update" /\ bk[p].train = t /\ bk'[p].success
                 \/ /\ trains'[t].available_seats = trains[t].available_seats + 1
                    /\ \E c \in Cancellers :
                           cn[c].pc = "update" /\ cn[c].train = t /\ cn'[c].pc = "done"]_vars

\* C20: every booking row that exists has status 'confirmed'.
C20_AllConfirmed ==
    \A b \in bookings : b.booking_status = "confirmed"

C20_Witness ==
    /\ \E c \in Cancellers : cn[c].pc = "update" /\ cn[c].removed = 1
    /\ Cardinality(bookings) = 1
    /\ nextId = 3

\* C21: once the admin has sent DELETE /trains/:id for a train, the train
\* and its booking rows no longer exist.
C21_TrainDeleted ==
    adm.op = "delete" => (adm.train \notin DOMAIN trains /\ TrainBookings(adm.train) = {})

\* C29: a train that comes into existence has available_seats equal to its
\* total_seats (the total_seats of the request) and no booking rows, and the
\* request is answered 201; a create request whose body lacks train_number,
\* train_name, source, destination or total_seats is answered 400 and leaves
\* the trains as they were.
C29_CreatedTrainAllAvailable ==
    [][/\ \A t \in DOMAIN trains' \ DOMAIN trains :
             /\ trains'[t].available_seats = trains'[t].total_seats
             /\ trains'[t].total_seats = adm'.body.total_seats
             /\ {b \in bookings' : b.train_id = t} = {}
             /\ adm'.op = "create" /\ adm'.train = t /\ adm'.status = 201
       /\ (adm' # adm /\ adm'.op = "create"
              /\ (adm'.body.given # RequiredText \/ adm'.body.total_seats = 0)) =>
             (adm'.status = 400 /\ trains' = trains /\ bookings' = bookings)]_vars

C29_Witness ==
    /\ adm.op = "create" /\ adm.status = 201 /\ adm.train = "T2"
    /\ "T2" \in DOMAIN trains
    /\ trains["T2"].total_seats = 2 /\ trains["T2"].available_seats = 2
    /\ TrainBookings("T1") # {}
    /\ \E p \in Bookers : bk[p].pc = "done" /\ bk[p].train = "T2"
                              /\ bk[p].message = "Train not found"

\* C22: whenever POST /bookings answers, the status is 201 exactly when
\* book_seat returned success = true, and then the answer's booking_id and
\* seat_number are those of a booking row; the answer for a request with a
\* missing field is 400, given without a book_seat call and without any
\* state change; a result with success = false is answered 400 with the
\* allocator's message; a failed RPC is answered 500.
AllocatorFailures ==
    {"Train not found", "No seats available"} \cup {"Booking failed: " \o e : e \in SqlErrors}

C22_PostBookingStatus ==
    [][\A p \in Bookers :
          (bk'[p] # bk[p] /\ bk'[p].pc = "done") =>
              /\ bk'[p].status \in {201, 400, 500}
              /\ bk'[p].status = 201 <=> bk'[p].success
              /\ bk'[p].success =>
                     \E b \in bookings' : b.id = bk'[p].bid /\ b.seat_number = bk'[p].seat
              /\ bk'[p].message = MissingDetails =>
                     /\ bk'[p].status = 400
                     /\ bk[p].pc \in {"idle", "done"}
                     /\ UNCHANGED <<trains, bookings, nextId, lock>>
              /\ bk'[p].message \in AllocatorFailures =>
                     /\ bk'[p].status = 400
                     /\ bk[p].pc \in {"locked", "insert", "update"}
              /\ bk'[p].message = RpcErrorText => bk'[p].status = 500
              /\ bk'[p].status = 400 =>
                     bk'[p].message \in AllocatorFailures \cup {MissingDetails}
              /\ bk'[p].status = 500 => bk'[p].message = RpcErrorText]_vars

C22_Witness ==
    \E p \in Bookers : \E q \in Bookers :
        /\ bk[p].pc = "done" /\ bk[p].status = 201
        /\ \E b \in bookings : b.id = bk[p].bid
        /\ bk[q].pc = "done" /\ bk[q].status = 400 /\ bk[q].message = "No seats available"
        /\ nextId = 2

\* C23: under weak fairness of every call, a book_seat call that has been
\* sent (waiting for the row lock or running) eventually has returned its
\* result and holds no row lock.
C23_EveryCallReturns ==
    \A p \in Callers :
        (bk[p].pc \in {"waiting", "locked", "insert", "update"})
            ~> (bk[p].pc = "done" /\ \A t \in Trains : lock[t] # p)

C23_Witness ==
    /\ \A p \in Callers : bk[p].pc = "done" /\ bk[p].train = "T1"
    /\ \A t \in Trains : lock[t] = NoProc
    /\ \E p \in Callers : bk[p].success
    /\ \E p \in Callers : bk[p].message = "No seats available"
    /\ \E p \in Callers : bk[p].message = "Booking failed: could not execute statement"

\* C24: a seat number greater than the train's total_seats is issued (the
\* witness: seats 1, 3 and 4 on a train of 3 seats, seat 2 free), and only
\* after a cancellation: when book_seat adds a row with such a number, more
\* bookings have been made (that one included) than booking rows exist.
C24_BeyondTotalOnlyAfterCancel ==
    [][\A b \in bookings' \ bookings :
          b.seat_number > trains[b.train_id].total_seats =>
              nextId' - 1 > Cardinality(bookings')]_vars

C24_Witness ==
    /\ trains["T1"].total_seats = 3
    /\ SeatNumbers("T1") = {1, 3, 4}
    /\ \E p \in Bookers : bk[p].pc = "done" /\ bk[p].success /\ bk[p].seat = 4

\* C25: on trains that start without bookings, with book_seat calls only
\* (no cancellation), the seat numbers of a train's booking rows are at every
\* moment exactly 1..k for its k rows: they are issued in order, without gaps.
C25_ContiguousSeats ==
    \A t \in DOMAIN trains : SeatNumbers(t) = 1..Cardinality(TrainBookings(t))

C25_Witness ==
    /\ SeatNumbers("T1") = {1, 2}
    /\ \E b1 \in bookings : \E b2 \in bookings :
           /\ b1.seat_number = 1 /\ b2.seat_number = 2
           /\ b1.id < b2.id /\ b1.user_id # b2.user_id

\* C26: whenever no booking and no cancellation request is in progress,
\* available_seats + the number of the train's booking rows = total_seats.
C26_SeatsAccounted ==
    (/\ \A p \in Bookers : bk[p].pc \in {"idle", "done"}
     /\ \A c \in Cancellers : cn[c].pc \in {"idle", "done"})
        => \A t \in DOMAIN trains :
               trains[t].available_seats + Cardinality(TrainBookings(t))
                   = trains[t].total_seats

\* C27: a cancellation request whose delete removed no row (the booking was
\* already cancelled by another request) does not increment available_seats.
C27_IncrementOnlyForRemovedRow ==
    [][\A c \in Cancellers :
          (cn[c].pc = "update" /\ cn'[c].pc = "done"
              /\ trains'[cn[c].train].available_seats
                     # trains[cn[c].train].available_seats)
              => cn[c].removed >= 1]_vars

\* C28: after one successful book_seat call and one cancellation of its
\* booking answered 200 (nothing else in progress, no other cancellation
\* sent), the booking rows and every train's available_seats are what they
\* were before the call: no rows, available_seats = total_seats.
C28_BookCancelRoundTrip ==
    (/\ nextId = 2
     /\ \A p \in Bookers : bk[p].pc \in {"idle", "done"}
     /\ \E c \in Cancellers :
            /\ cn[c].pc = "done" /\ cn[c].status = 200
            /\ \A c2 \in Cancellers \ {c} : cn[c2].pc = "idle")
        => /\ bookings = {}
           /\ \A t \in DOMAIN trains : trains[t].available_seats = trains[t].total_seats

\* C30: a step of a book_seat call or of a cancellation changes the
\* available_seats, the total_seats and the booking rows of no train other
\* than the one the call or the cancelled booking is for.
C30_OtherTrainsUntouched ==
    [][\A t \in DOMAIN trains :
          (trains'[t] # trains[t] \/ {b \in bookings' : b.train_id = t} # TrainBookings(t))
              => \/ \E p \in Bookers : bk'[p] # bk[p] /\ bk[p].train = t
                 \/ \E c \in Cancellers : cn'[c] # cn[c] /\ cn[c].train = t]_vars

C30_Witness ==
    /\ nextId = 3
    /\ \E b \in bookings : bookings = {b} /\ b.train_id = "T1"
    /\ trains["T1"].available_seats = trains["T1"].total_seats - 1
    /\ trains["T2"].available_seats = trains["T2"].total_seats
    /\ cn["c1"].pc = "done" /\ cn["c1"].status = 200
    /\ \E p \in Bookers : bk[p].pc = "done" /\ bk[p].success /\ bk[p].train = "T2"

====
